---------------------------- MODULE Spec2Model ----------------------------
(***************************************************************************)
(* Model of src/mpydev.py: the BioPac class.  One foreground thread        *)
(* constructs a BioPac object and calls its methods; the constructor       *)
(* starts the daemon thread _sampleprocesser, which polls the driver.      *)
(* Every statement of a method that reads or writes state shared with the  *)
(* other thread is a step of its own, so the two threads interleave as     *)
(* CPython threads do.                                                     *)
(***************************************************************************)
EXTENDS Integers, Sequences, FiniteSets, TLC

(***************************************************************************)
(* Bounds of the model.                                                    *)
(***************************************************************************)
MaxFetch == 2        \* driver fetches made by the sample processing thread
MaxCalls == 2        \* method calls the foreground makes on an open session
MaxTime  == 1        \* largest value of the clock (milliseconds)

(***************************************************************************)
(* Program constants.                                                      *)
(***************************************************************************)
MPSUCCESS   == 1     \* the return code check_returncode accepts
MaxChannels == 16    \* the largest channel count __init__ accepts

\* A return code other than MPSUCCESS, and the value that stands for the
\* string the except: clauses put in result when the driver call raises.
MPERROR    == 2
CallFailed == 0
RetCodes   == {MPSUCCESS, MPERROR, CallFailed}

\* Device names handed to __init__, and the keys of self._supported.
DevNames  == {"MP150", "mp150", "MP100"}
Supported == {"MP150", "MP160", "MP36R"}

\* str.upper() on the names above.
Upper(s) == IF s = "mp150" THEN "MP150" ELSE s

\* Channel counts handed to __init__.
ChannelCounts == {0, 1, 2, MaxChannels + 1}

\* Channels handed to start_recording_to_buffer, and messages handed to log.
Channels == {0, 1}
Messages == {"hello"}

\* The readings of a channel: the value numpy.zeros gives, and another one.
Readings == {0, 1}

\* Line 131, with the test for a positive count left out.
ValidChannels_NoLowerBound(n) == n <= MaxChannels

\* Line 131: n_channels > 0 and n_channels <= 16
ValidChannels(n) == n > 0 /\ n <= MaxChannels

\* Lines 59-64.
check_returncode(returncode) ==
    IF returncode = MPSUCCESS THEN "MPSUCCESS" ELSE "UNKNOWN"

\* check_returncode(result) != "MPSUCCESS"
Failed(returncode) == check_returncode(returncode) # "MPSUCCESS"

VARIABLES
    fpc,            \* foreground: position in the method being run
    arg_devname,    \* foreground: argument devname of __init__
    arg_n_channels, \* foreground: argument n_channels of __init__
    fret,           \* foreground: where stop_recording returns to
    ferr,           \* foreground: the exception the last call raised, or "none"
    fval,           \* foreground: the value the last sample()/get_buffer() returned
    ft,             \* foreground: local t of log()
    fmsg,           \* foreground: argument msg of log()
    channel,        \* foreground: argument channel of start_recording_to_buffer()
    ncalls,         \* foreground: method calls made so far
    devname,        \* self._devname
    n_channels,     \* self._n_channels
    starting_time,  \* self._starting_time (-1: not assigned)
    calls,          \* the driver functions called so far, in order, each
                    \* with the code it returned: [fn, rc]
    devConnected,   \* driver: a connection is held
    logfile,        \* self._logfile: the rows written to it
    fileState,      \* "none", "open" or "closed"
    flushed,        \* rows of logfile handed to the operating system
    synced,         \* rows of logfile on the disk
    loglock,        \* self._loglock: "none" (not created), "free", "fg", "loop"
    recording,      \* self._recording
    recordtobuff,   \* self._recordtobuff
    connected,      \* self._connected
    newestsample,   \* self._newestsample: [kind, val]
    buffer,         \* self._buffer
    buffch,         \* self._buffch
    lpc,            \* sample processing thread: position
    lerr,           \* sample processing thread: the exception that ended it
    data,           \* sample processing thread: local data
    t,              \* sample processing thread: local t
    nthreads,       \* threads started by __init__
    nfetch,         \* fetches made so far
    clock,          \* time.time(), in milliseconds
    \* History variables: they record what happened and steer nothing.
    fetched,        \* the samples the driver returned with MPSUCCESS, in order
    lastDone,       \* the sample fetched by the last iteration that ran to its end
    recWhole,       \* "pre", "on" (start_recording ran before the first fetch
                    \* and nothing stopped it since) or "off"
    bufWin,         \* "none", "open" (start_recording_to_buffer returned),
                    \* "closed" (stop_recording_to_buffer called) or "void"
    bufFed,         \* the samples the driver returned while bufWin = "open"
    lastop,         \* the method the foreground called last
    lateWrite,      \* a write to the log file was attempted after its close
    recAtBegin,     \* self._recording as the running iteration found it at its
                    \* begin: "on" or "off"; "mixed" once a call has changed
                    \* the flag since; "none" between iterations
    afterStop       \* data rows appended since stop_recording last returned
                    \* with no start_recording since (-1: does not apply)

progVars == <<fpc, arg_devname, arg_n_channels, fret, ferr, fval, ft, fmsg, channel, ncalls, devname, n_channels,
              starting_time, calls, devConnected, logfile, fileState, flushed,
              synced, loglock, recording, recordtobuff, connected, newestsample,
              buffer, buffch, lpc, lerr, data, t, nthreads, nfetch, clock>>
histVars == <<fetched, lastDone, recWhole, bufWin, bufFed, lastop, lateWrite,
              recAtBegin, afterStop>>
vars     == <<progVars, histVars>>

(***************************************************************************)
(* Values.                                                                 *)
(***************************************************************************)
\* numpy.zeros(n, dtype=float)
Zeros(n) == [i \in 1..n |-> 0]

\* The sample vectors the driver can put in data for n channels.
Samples(n) == [1..n -> Readings]

\* The rows of the log file.
Header(n)        == [kind |-> "HDR",  t |-> 0,  vals |-> Zeros(n), msg |-> ""]
DataRow(ts, d)   == [kind |-> "DATA", t |-> ts, vals |-> d,        msg |-> ""]
MsgRow(ts, m)    == [kind |-> "MSG",  t |-> ts, vals |-> <<>>,     msg |-> m]

\* A timestamp with the two times exchanged.
get_timestamp_Reversed == starting_time - clock

\* get_timestamp(): int((time.time() - self._starting_time) * 1000)
get_timestamp == clock - starting_time

\* The novelty test with == in the place of !=.
NotEqual_Inverted(d, ns) ==
    IF ns.kind = "ndarray"
    THEN IF Len(ns.val) > 1 THEN "ValueError"
         ELSE IF d[1] = ns.val[1] THEN "True" ELSE "False"
    ELSE IF d = ns.val THEN "True" ELSE "False"

\* data != self._newestsample, as the if statement evaluates it.  The value
\* __init__ stores is a numpy array: a tuple compared with it gives the
\* array of the elementwise comparisons, whose truth value is that of its
\* element when it has one and raises ValueError when it has more.  The
\* values the thread stores are tuples, which compare as wholes.
NotEqual(d, ns) ==
    IF ns.kind = "ndarray"
    THEN IF Len(ns.val) > 1 THEN "ValueError"
         ELSE IF d[1] # ns.val[1] THEN "True" ELSE "False"
    ELSE IF d # ns.val THEN "True" ELSE "False"

\* copy.deepcopy(data)
deepcopy(d) == [kind |-> "tuple", val |-> d]

Init ==
    /\ fpc = "new" /\ arg_devname = "" /\ arg_n_channels = 0 /\ fret = "idle" /\ ferr = "none" /\ fval = <<>>
    /\ ft = 0 /\ fmsg = "" /\ channel = 0 /\ ncalls = 0
    /\ devname = "" /\ n_channels = 0 /\ starting_time = -1
    /\ calls = <<>> /\ devConnected = FALSE
    /\ logfile = <<>> /\ fileState = "none" /\ flushed = 0 /\ synced = 0
    /\ loglock = "none"
    /\ recording = FALSE /\ recordtobuff = FALSE /\ connected = FALSE
    /\ newestsample = [kind |-> "ndarray", val |-> <<>>]
    /\ buffer = <<>> /\ buffch = 0
    /\ lpc = "none" /\ lerr = "none" /\ data = <<>> /\ t = 0
    /\ nthreads = 0 /\ nfetch = 0 /\ clock = 0
    /\ fetched = <<>> /\ lastDone = <<>> /\ recWhole = "pre"
    /\ bufWin = "none" /\ bufFed = <<>> /\ lastop = "none"
    /\ lateWrite = FALSE /\ recAtBegin = "none" /\ afterStop = -1

(***************************************************************************)
(* BioPac.__init__                                                         *)
(***************************************************************************)
\* Lines 109-150: the checks of the device name and the channel count, and
\* the properties created before the first driver call.
Validate(dev, n) ==
    /\ fpc = "new"
    /\ arg_devname' = dev /\ arg_n_channels' = n
    /\ IF Upper(dev) \notin Supported
       THEN /\ fpc' = "failed" /\ ferr' = "UnknownDevice"
            /\ UNCHANGED <<devname, n_channels, newestsample, buffer, buffch>>
       ELSE /\ devname' = Upper(dev)
            /\ IF ValidChannels(n)
               THEN /\ n_channels' = n
                    /\ newestsample' = [kind |-> "ndarray", val |-> Zeros(n)]
                    /\ buffer' = <<>> /\ buffch' = 0
                    /\ fpc' = "connectMPDev" /\ ferr' = "none"
               ELSE /\ fpc' = "failed" /\ ferr' = "BadChannelCount"
                    /\ UNCHANGED <<n_channels, newestsample, buffer, buffch>>
    /\ UNCHANGED <<fret, fval, ft, fmsg, channel, ncalls, starting_time,
                 calls, devConnected, logfile, fileState, flushed, synced,
                 loglock, recording, recordtobuff, connected, lpc, lerr,
                 data, t, nthreads, nfetch, clock, fetched, lastDone,
                 recWhole, bufWin, bufFed, lastop, lateWrite, recAtBegin,
                 afterStop>>

\* Lines 157-166: connectMPDev, and the connection start time.
Connect(result) ==
    /\ fpc = "connectMPDev"
    /\ calls' = Append(calls, [fn |-> "connectMPDev", rc |-> result])
    /\ devConnected' = (result = MPSUCCESS)
    /\ IF Failed(result)
       THEN /\ fpc' = "failed" /\ ferr' = "connectMPDev"
            /\ UNCHANGED starting_time
       ELSE /\ starting_time' = clock
            /\ fpc' = "setSampleRate" /\ ferr' = "none"
    /\ UNCHANGED <<arg_devname, arg_n_channels, fret, fval, ft, fmsg, channel,
                 ncalls, devname, n_channels, logfile, fileState, flushed,
                 synced, loglock, recording, recordtobuff, connected,
                 newestsample, buffer, buffch, lpc, lerr, data, t, nthreads,
                 nfetch, clock, fetched, lastDone, recWhole, bufWin, bufFed,
                 lastop, lateWrite, recAtBegin, afterStop>>

\* A driver call of __init__ whose return code is not checked.
DriverStep_Unchecked(name, next, result) ==
    /\ fpc = name
    /\ calls' = Append(calls, [fn |-> name, rc |-> result])
    /\ fpc' = next /\ ferr' = "none"
    /\ UNCHANGED <<arg_devname, arg_n_channels, fret, fval, ft, fmsg, channel,
                 ncalls, devname, n_channels, starting_time, devConnected,
                 logfile, fileState, flushed, synced, loglock, recording,
                 recordtobuff, connected, newestsample, buffer, buffch, lpc,
                 lerr, data, t, nthreads, nfetch, clock, fetched, lastDone,
                 recWhole, bufWin, bufFed, lastop, lateWrite, recAtBegin,
                 afterStop>>

\* A later driver call of __init__: it raises when the call fails and goes
\* on to the next step otherwise.
DriverStep(name, next, result) ==
    /\ fpc = name
    /\ calls' = Append(calls, [fn |-> name, rc |-> result])
    /\ IF Failed(result)
       THEN fpc' = "failed" /\ ferr' = name
       ELSE fpc' = next /\ ferr' = "none"
    /\ UNCHANGED <<arg_devname, arg_n_channels, fret, fval, ft, fmsg, channel,
                 ncalls, devname, n_channels, starting_time, devConnected,
                 logfile, fileState, flushed, synced, loglock, recording,
                 recordtobuff, connected, newestsample, buffer, buffch, lpc,
                 lerr, data, t, nthreads, nfetch, clock, fetched, lastDone,
                 recWhole, bufWin, bufFed, lastop, lateWrite, recAtBegin,
                 afterStop>>

\* Lines 169-175.
SetSampleRate(result) == DriverStep("setSampleRate", "setAcqChannels", result)

\* Lines 178-191.
SetAcqChannels(result) == DriverStep("setAcqChannels", "startAcquisition", result)

\* Lines 194-200.
StartAcquisition(result) == DriverStep("startAcquisition", "openlog", result)

\* Lines 203-221: the log file and its header, the lock, the flags, and the
\* start of the sample processing thread; __init__ returns and its arguments
\* are gone.
OpenLogAndStartThread ==
    /\ fpc = "openlog"
    /\ fileState' = "open"
    /\ logfile' = <<Header(n_channels)>>
    /\ loglock' = "free"
    /\ recording' = FALSE /\ recordtobuff' = FALSE /\ connected' = TRUE
    /\ nthreads' = nthreads + 1
    /\ lpc' = "while"
    /\ fpc' = "idle" /\ arg_devname' = "" /\ arg_n_channels' = 0
    /\ UNCHANGED <<fret, ferr, fval, ft, fmsg, channel, ncalls, devname,
                 n_channels, starting_time, calls, devConnected, flushed,
                 synced, newestsample, buffer, buffch, lerr, data, t,
                 nfetch, clock, fetched, lastDone, recWhole, bufWin, bufFed,
                 lastop, lateWrite, recAtBegin, afterStop>>

(***************************************************************************)
(* The methods the foreground calls on the object __init__ returned.  A    *)
(* method that raises hands control back to its caller, which may go on    *)
(* calling methods.                                                        *)
(***************************************************************************)
CanCall == fpc = "idle" /\ ncalls < MaxCalls

\* Line 232.
\* A start_recording() that takes the time of the call as the new origin.
start_recording_ResetsClock ==
    /\ CanCall
    /\ recording' = TRUE
    /\ starting_time' = clock
    /\ ncalls' = ncalls + 1 /\ lastop' = "start_recording" /\ ferr' = "none" /\ fval' = <<>>
    /\ recWhole' = IF recWhole = "pre" THEN "on" ELSE recWhole
    /\ recAtBegin' = IF recAtBegin = "off" THEN "mixed" ELSE recAtBegin
    /\ afterStop' = -1
    /\ UNCHANGED <<fpc, arg_devname, arg_n_channels, fret, ft, fmsg, channel,
                 devname, n_channels, calls, devConnected, logfile,
                 fileState, flushed, synced, loglock, recordtobuff,
                 connected, newestsample, buffer, buffch, lpc, lerr, data,
                 t, nthreads, nfetch, clock, fetched, lastDone, bufWin,
                 bufFed, lateWrite>>

start_recording ==
    /\ CanCall
    /\ recording' = TRUE
    /\ ncalls' = ncalls + 1 /\ lastop' = "start_recording" /\ ferr' = "none" /\ fval' = <<>>
    /\ recWhole' = IF recWhole = "pre" THEN "on" ELSE recWhole
    /\ recAtBegin' = IF recAtBegin = "off" THEN "mixed" ELSE recAtBegin
    /\ afterStop' = -1
    /\ UNCHANGED <<fpc, arg_devname, arg_n_channels, fret, ft, fmsg, channel,
                 devname, n_channels, starting_time, calls, devConnected,
                 logfile, fileState, flushed, synced, loglock, recordtobuff,
                 connected, newestsample, buffer, buffch, lpc, lerr, data,
                 t, nthreads, nfetch, clock, fetched, lastDone, bufWin,
                 bufFed, lateWrite>>

\* Line 243: the call of stop_recording, up to the wait for the lock.
stop_recording ==
    /\ CanCall
    /\ recording' = FALSE
    /\ fpc' = "sr_acquire" /\ fret' = "idle"
    /\ recAtBegin' = IF recAtBegin = "on" THEN "mixed" ELSE recAtBegin
    /\ ncalls' = ncalls + 1 /\ lastop' = "stop_recording" /\ ferr' = "none" /\ fval' = <<>>
    /\ recWhole' = "off"
    /\ UNCHANGED <<arg_devname, arg_n_channels, ft, fmsg, channel, devname,
                 n_channels, starting_time, calls, devConnected, logfile,
                 fileState, flushed, synced, loglock, recordtobuff,
                 connected, newestsample, buffer, buffch, lpc, lerr, data,
                 t, nthreads, nfetch, clock, fetched, lastDone, bufWin,
                 bufFed, lateWrite, afterStop>>

\* Line 246: self._loglock.acquire(True)
sr_acquire ==
    /\ fpc = "sr_acquire"
    /\ loglock = "free"
    /\ loglock' = "fg"
    /\ fpc' = "sr_flush"
    /\ UNCHANGED <<arg_devname, arg_n_channels, fret, ferr, fval, ft, fmsg,
                 channel, ncalls, devname, n_channels, starting_time, calls,
                 devConnected, logfile, fileState, flushed, synced,
                 recording, recordtobuff, connected, newestsample, buffer,
                 buffch, lpc, lerr, data, t, nthreads, nfetch, clock,
                 fetched, lastDone, recWhole, bufWin, bufFed, lastop,
                 lateWrite, recAtBegin, afterStop>>

\* file.flush(): every row written so far is handed to the operating system.
flush(rows, fl) == Len(rows)

\* stop_recording without the call of os.fsync.
fsync_Skipped(fl, sy) == sy

\* os.fsync(): every row handed to the operating system is on the disk.
fsync(fl, sy) == fl

\* Line 248: self._logfile.flush(), which raises ValueError on a closed
\* file; the lock is then still held.
sr_flush ==
    /\ fpc = "sr_flush"
    /\ IF fileState = "open"
       THEN /\ flushed' = flush(logfile, flushed)
            /\ fpc' = "sr_fsync"
            /\ UNCHANGED ferr
       ELSE /\ fpc' = "idle" /\ ferr' = "ValueError"
            /\ UNCHANGED flushed
    /\ UNCHANGED <<arg_devname, arg_n_channels, fret, fval, ft, fmsg, channel,
                 ncalls, devname, n_channels, starting_time, calls,
                 devConnected, logfile, fileState, synced, loglock,
                 recording, recordtobuff, connected, newestsample, buffer,
                 buffch, lpc, lerr, data, t, nthreads, nfetch, clock,
                 fetched, lastDone, recWhole, bufWin, bufFed, lastop,
                 lateWrite, recAtBegin, afterStop>>

\* Line 250: os.fsync(self._logfile.fileno())
sr_fsync ==
    /\ fpc = "sr_fsync"
    /\ synced' = fsync(flushed, synced)
    /\ fpc' = "sr_release"
    /\ UNCHANGED <<arg_devname, arg_n_channels, fret, ferr, fval, ft, fmsg,
                 channel, ncalls, devname, n_channels, starting_time, calls,
                 devConnected, logfile, fileState, flushed, loglock,
                 recording, recordtobuff, connected, newestsample, buffer,
                 buffch, lpc, lerr, data, t, nthreads, nfetch, clock,
                 fetched, lastDone, recWhole, bufWin, bufFed, lastop,
                 lateWrite, recAtBegin, afterStop>>

\* Line 251: self._loglock.release(), and the return to the caller.
sr_release ==
    /\ fpc = "sr_release"
    /\ loglock' = "free"
    /\ fpc' = fret
    /\ afterStop' = 0
    /\ UNCHANGED <<arg_devname, arg_n_channels, fret, ferr, fval, ft, fmsg,
                 channel, ncalls, devname, n_channels, starting_time, calls,
                 devConnected, logfile, fileState, flushed, synced,
                 recording, recordtobuff, connected, newestsample, buffer,
                 buffch, lpc, lerr, data, t, nthreads, nfetch, clock,
                 fetched, lastDone, recWhole, bufWin, bufFed, lastop,
                 lateWrite, recAtBegin>>

\* Line 268: the call of start_recording_to_buffer, and self._buffer = [].
start_recording_to_buffer(ch) ==
    /\ CanCall
    /\ channel' = ch
    /\ buffer' = <<>>
    /\ fpc' = "sb_buffch"
    /\ ncalls' = ncalls + 1 /\ lastop' = "start_recording_to_buffer"
    /\ ferr' = "none" /\ fval' = <<>>
    /\ bufWin' = "none" /\ bufFed' = <<>>
    /\ UNCHANGED <<arg_devname, arg_n_channels, fret, ft, fmsg, devname,
                 n_channels, starting_time, calls, devConnected, logfile,
                 fileState, flushed, synced, loglock, recording,
                 recordtobuff, connected, newestsample, buffch, lpc, lerr,
                 data, t, nthreads, nfetch, clock, fetched, lastDone,
                 recWhole, lateWrite, recAtBegin, afterStop>>

\* Line 269: self._buffch = channel
sb_buffch ==
    /\ fpc = "sb_buffch"
    /\ buffch' = channel
    /\ fpc' = "sb_flag"
    /\ UNCHANGED <<arg_devname, arg_n_channels, fret, ferr, fval, ft, fmsg,
                 channel, ncalls, devname, n_channels, starting_time, calls,
                 devConnected, logfile, fileState, flushed, synced, loglock,
                 recording, recordtobuff, connected, newestsample, buffer,
                 lpc, lerr, data, t, nthreads, nfetch, clock, fetched,
                 lastDone, recWhole, bufWin, bufFed, lastop, lateWrite,
                 recAtBegin, afterStop>>

\* Line 273: self._recordtobuff = True, and the return.
sb_flag ==
    /\ fpc = "sb_flag"
    /\ recordtobuff' = TRUE
    /\ fpc' = "idle" /\ channel' = 0
    /\ bufWin' = "open"
    /\ UNCHANGED <<arg_devname, arg_n_channels, fret, ferr, fval, ft, fmsg,
                 ncalls, devname, n_channels, starting_time, calls,
                 devConnected, logfile, fileState, flushed, synced, loglock,
                 recording, connected, newestsample, buffer, buffch, lpc,
                 lerr, data, t, nthreads, nfetch, clock, fetched, lastDone,
                 recWhole, bufFed, lastop, lateWrite, recAtBegin, afterStop>>

\* Line 284.
stop_recording_to_buffer ==
    /\ CanCall
    /\ recordtobuff' = FALSE
    /\ ncalls' = ncalls + 1 /\ lastop' = "stop_recording_to_buffer"
    /\ ferr' = "none" /\ fval' = <<>>
    /\ bufWin' = IF bufWin = "open" THEN "closed" ELSE bufWin
    /\ UNCHANGED <<fpc, arg_devname, arg_n_channels, fret, ft, fmsg, channel,
                 devname, n_channels, starting_time, calls, devConnected,
                 logfile, fileState, flushed, synced, loglock, recording,
                 connected, newestsample, buffer, buffch, lpc, lerr, data,
                 t, nthreads, nfetch, clock, fetched, lastDone, recWhole,
                 bufFed, lateWrite, recAtBegin, afterStop>>

\* Line 299: return self._newestsample
sample ==
    /\ CanCall
    /\ fval' = newestsample.val
    /\ ncalls' = ncalls + 1 /\ lastop' = "sample" /\ ferr' = "none"
    /\ UNCHANGED <<fpc, arg_devname, arg_n_channels, fret, ft, fmsg, channel,
                 devname, n_channels, starting_time, calls, devConnected,
                 logfile, fileState, flushed, synced, loglock, recording,
                 recordtobuff, connected, newestsample, buffer, buffch, lpc,
                 lerr, data, t, nthreads, nfetch, clock, fetched, lastDone,
                 recWhole, bufWin, bufFed, lateWrite, recAtBegin, afterStop>>

\* Line 317: return numpy.array(self._buffer)
get_buffer ==
    /\ CanCall
    /\ fval' = buffer
    /\ ncalls' = ncalls + 1 /\ lastop' = "get_buffer" /\ ferr' = "none"
    /\ UNCHANGED <<fpc, arg_devname, arg_n_channels, fret, ft, fmsg, channel,
                 devname, n_channels, starting_time, calls, devConnected,
                 logfile, fileState, flushed, synced, loglock, recording,
                 recordtobuff, connected, newestsample, buffer, buffch, lpc,
                 lerr, data, t, nthreads, nfetch, clock, fetched, lastDone,
                 recWhole, bufWin, bufFed, lateWrite, recAtBegin, afterStop>>

\* Line 333: the call of log, and t = self.get_timestamp().
log(m) ==
    /\ CanCall
    /\ fmsg' = m
    /\ ft' = get_timestamp
    /\ fpc' = "log_acquire"
    /\ ncalls' = ncalls + 1 /\ lastop' = "log" /\ ferr' = "none" /\ fval' = <<>>
    /\ UNCHANGED <<arg_devname, arg_n_channels, fret, channel, devname,
                 n_channels, starting_time, calls, devConnected, logfile,
                 fileState, flushed, synced, loglock, recording,
                 recordtobuff, connected, newestsample, buffer, buffch, lpc,
                 lerr, data, t, nthreads, nfetch, clock, fetched, lastDone,
                 recWhole, bufWin, bufFed, lateWrite, recAtBegin, afterStop>>

\* Line 336: self._loglock.acquire(True)
log_acquire ==
    /\ fpc = "log_acquire"
    /\ loglock = "free"
    /\ loglock' = "fg"
    /\ fpc' = "log_write"
    /\ UNCHANGED <<arg_devname, arg_n_channels, fret, ferr, fval, ft, fmsg,
                 channel, ncalls, devname, n_channels, starting_time, calls,
                 devConnected, logfile, fileState, flushed, synced,
                 recording, recordtobuff, connected, newestsample, buffer,
                 buffch, lpc, lerr, data, t, nthreads, nfetch, clock,
                 fetched, lastDone, recWhole, bufWin, bufFed, lastop,
                 lateWrite, recAtBegin, afterStop>>

\* log() writing its row only while self._recording is set.
log_write_WhenRecording ==
    /\ fpc = "log_write"
    /\ IF fileState = "open"
       THEN /\ logfile' = IF recording THEN Append(logfile, MsgRow(ft, fmsg))
                                        ELSE logfile
            /\ fpc' = "log_release"
            /\ UNCHANGED <<ferr, ft, fmsg>>
       ELSE /\ fpc' = "idle" /\ ferr' = "ValueError"
            /\ ft' = 0 /\ fmsg' = ""
            /\ UNCHANGED logfile
    /\ UNCHANGED <<arg_devname, arg_n_channels, fret, fval, channel, ncalls,
                 devname, n_channels, starting_time, calls, devConnected,
                 fileState, flushed, synced, loglock, recording,
                 recordtobuff, connected, newestsample, buffer, buffch, lpc,
                 lerr, data, t, nthreads, nfetch, clock, fetched, lastDone,
                 recWhole, bufWin, bufFed, lastop, lateWrite, recAtBegin,
                 afterStop>>

\* Line 339: self._logfile.write(...), which raises ValueError on a closed
\* file; the lock is then still held.
log_write ==
    /\ fpc = "log_write"
    /\ IF fileState = "open"
       THEN /\ logfile' = Append(logfile, MsgRow(ft, fmsg))
            /\ fpc' = "log_release"
            /\ UNCHANGED <<ferr, ft, fmsg>>
       ELSE /\ fpc' = "idle" /\ ferr' = "ValueError"
            /\ ft' = 0 /\ fmsg' = ""
            /\ UNCHANGED logfile
    /\ UNCHANGED <<arg_devname, arg_n_channels, fret, fval, channel, ncalls,
                 devname, n_channels, starting_time, calls, devConnected,
                 fileState, flushed, synced, loglock, recording,
                 recordtobuff, connected, newestsample, buffer, buffch, lpc,
                 lerr, data, t, nthreads, nfetch, clock, fetched, lastDone,
                 recWhole, bufWin, bufFed, lastop, lateWrite, recAtBegin,
                 afterStop>>

\* Line 342: self._loglock.release(), and the return.
log_release ==
    /\ fpc = "log_release"
    /\ loglock' = "free"
    /\ fpc' = "idle" /\ ft' = 0 /\ fmsg' = ""
    /\ UNCHANGED <<arg_devname, arg_n_channels, fret, ferr, fval, channel,
                 ncalls, devname, n_channels, starting_time, calls,
                 devConnected, logfile, fileState, flushed, synced,
                 recording, recordtobuff, connected, newestsample, buffer,
                 buffch, lpc, lerr, data, t, nthreads, nfetch, clock,
                 fetched, lastDone, recWhole, bufWin, bufFed, lastop,
                 lateWrite, recAtBegin, afterStop>>

\* Lines 353-354: the call of close; when self._recording is set it runs
\* stop_recording (line 243) and comes back to line 356.
close ==
    /\ CanCall
    /\ IF recording
       THEN /\ recording' = FALSE
            /\ fpc' = "sr_acquire" /\ fret' = "close_file"
            /\ recWhole' = "off"
            /\ recAtBegin' = IF recAtBegin = "on" THEN "mixed" ELSE recAtBegin
       ELSE /\ fpc' = "close_file"
            /\ UNCHANGED <<recording, fret, recWhole, recAtBegin>>
    /\ ncalls' = ncalls + 1 /\ lastop' = "close" /\ ferr' = "none" /\ fval' = <<>>
    /\ UNCHANGED <<arg_devname, arg_n_channels, ft, fmsg, channel, devname,
                 n_channels, starting_time, calls, devConnected, logfile,
                 fileState, flushed, synced, loglock, recordtobuff,
                 connected, newestsample, buffer, buffch, lpc, lerr, data,
                 t, nthreads, nfetch, clock, fetched, lastDone, bufWin,
                 bufFed, lateWrite, afterStop>>

\* Line 356: self._logfile.close(), which hands what the file object still
\* buffers to the operating system.
close_file ==
    /\ fpc = "close_file"
    /\ fileState' = "closed"
    /\ flushed' = IF fileState = "open" THEN flush(logfile, flushed) ELSE flushed
    /\ fpc' = "close_flag"
    /\ UNCHANGED <<arg_devname, arg_n_channels, fret, ferr, fval, ft, fmsg,
                 channel, ncalls, devname, n_channels, starting_time, calls,
                 devConnected, logfile, synced, loglock, recording,
                 recordtobuff, connected, newestsample, buffer, buffch, lpc,
                 lerr, data, t, nthreads, nfetch, clock, fetched, lastDone,
                 recWhole, bufWin, bufFed, lastop, lateWrite, recAtBegin,
                 afterStop>>

\* Line 358: self._connected = False
close_flag ==
    /\ fpc = "close_flag"
    /\ connected' = FALSE
    /\ fpc' = "disconnectMPDev"
    /\ UNCHANGED <<arg_devname, arg_n_channels, fret, ferr, fval, ft, fmsg,
                 channel, ncalls, devname, n_channels, starting_time, calls,
                 devConnected, logfile, fileState, flushed, synced, loglock,
                 recording, recordtobuff, newestsample, buffer, buffch, lpc,
                 lerr, data, t, nthreads, nfetch, clock, fetched, lastDone,
                 recWhole, bufWin, bufFed, lastop, lateWrite, recAtBegin,
                 afterStop>>

\* Lines 361-367: disconnectMPDev, and the return or the exception.
Disconnect(result) ==
    /\ fpc = "disconnectMPDev"
    /\ calls' = Append(calls, [fn |-> "disconnectMPDev", rc |-> result])
    /\ devConnected' = (devConnected /\ result # MPSUCCESS)
    /\ ferr' = IF Failed(result) THEN "disconnectMPDev" ELSE "none"
    /\ fpc' = "idle"
    /\ UNCHANGED <<arg_devname, arg_n_channels, fret, fval, ft, fmsg, channel,
                 ncalls, devname, n_channels, starting_time, logfile,
                 fileState, flushed, synced, loglock, recording,
                 recordtobuff, connected, newestsample, buffer, buffch, lpc,
                 lerr, data, t, nthreads, nfetch, clock, fetched, lastDone,
                 recWhole, bufWin, bufFed, lastop, lateWrite, recAtBegin,
                 afterStop>>

(***************************************************************************)
(* BioPac._sampleprocesser, the thread __init__ starts.  An exception that *)
(* leaves the method ends the thread.  The locals data and t are written   *)
(* by every iteration before it reads them (lines 396 and 402): they are   *)
(* cleared where an iteration or the thread ends.                          *)
(***************************************************************************)
\* Line 392: while self._connected
\* A thread that clears self._recording when it leaves its loop.
LoopWhile_ClearsFlag ==
    /\ lpc = "while"
    /\ lpc' = IF connected THEN "fetch" ELSE "done"
    /\ recording' = (connected /\ recording)
    /\ recAtBegin' = IF ~connected THEN "none"
                     ELSE IF recording THEN "on" ELSE "off"
    /\ UNCHANGED <<fpc, arg_devname, arg_n_channels, fret, ferr, fval, ft,
                 fmsg, channel, ncalls, devname, n_channels, starting_time,
                 calls, devConnected, logfile, fileState, flushed, synced,
                 loglock, recordtobuff, connected, newestsample, buffer,
                 buffch, lerr, data, t, nthreads, nfetch, clock, fetched,
                 lastDone, recWhole, bufWin, bufFed, lastop, lateWrite,
                 afterStop>>

LoopWhile ==
    /\ lpc = "while"
    /\ lpc' = IF connected THEN "fetch" ELSE "done"
    /\ recAtBegin' = IF ~connected THEN "none"
                     ELSE IF recording THEN "on" ELSE "off"
    /\ UNCHANGED <<fpc, arg_devname, arg_n_channels, fret, ferr, fval, ft,
                 fmsg, channel, ncalls, devname, n_channels, starting_time,
                 calls, devConnected, logfile, fileState, flushed, synced,
                 loglock, recording, recordtobuff, connected, newestsample,
                 buffer, buffch, lerr, data, t, nthreads, nfetch, clock,
                 fetched, lastDone, recWhole, bufWin, bufFed, lastop,
                 lateWrite, afterStop>>

\* Lines 394-409: getMostRecentSample, the timestamp, and the exception
\* raised when the call fails.
\* A fetch whose failure is noted and followed by another attempt.
LoopFetch_Retry(result, s) ==
    /\ lpc = "fetch"
    /\ nfetch < MaxFetch
    /\ nfetch' = nfetch + 1
    /\ IF Failed(result)
       THEN /\ lpc' = "while" /\ lerr' = "fetch"
            /\ recAtBegin' = "none"
            /\ UNCHANGED <<data, t, fetched, bufFed, recWhole>>
       ELSE /\ data' = s
            /\ t' = get_timestamp
            /\ lpc' = "novel"
            /\ fetched' = Append(fetched, s)
            /\ bufFed' = IF bufWin = "open" THEN Append(bufFed, s) ELSE bufFed
            /\ recWhole' = IF recWhole = "pre" THEN "off" ELSE recWhole
            /\ UNCHANGED <<lerr, recAtBegin>>
    /\ UNCHANGED <<fpc, arg_devname, arg_n_channels, fret, ferr, fval, ft,
                 fmsg, channel, ncalls, devname, n_channels, starting_time,
                 calls, devConnected, logfile, fileState, flushed, synced,
                 loglock, recording, recordtobuff, connected, newestsample,
                 buffer, buffch, nthreads, clock, lastDone, bufWin, lastop,
                 lateWrite, afterStop>>

LoopFetch(result, s) ==
    /\ lpc = "fetch"
    /\ nfetch < MaxFetch
    /\ nfetch' = nfetch + 1
    /\ IF Failed(result)
       THEN /\ lpc' = "dead" /\ lerr' = "fetch"
            /\ recAtBegin' = "none"
            /\ UNCHANGED <<data, t, fetched, bufFed, recWhole>>
       ELSE /\ data' = s
            /\ t' = get_timestamp
            /\ lpc' = "novel"
            /\ fetched' = Append(fetched, s)
            /\ bufFed' = IF bufWin = "open" THEN Append(bufFed, s) ELSE bufFed
            /\ recWhole' = IF recWhole = "pre" THEN "off" ELSE recWhole
            /\ UNCHANGED <<lerr, recAtBegin>>
    /\ UNCHANGED <<fpc, arg_devname, arg_n_channels, fret, ferr, fval, ft,
                 fmsg, channel, ncalls, devname, n_channels, starting_time,
                 calls, devConnected, logfile, fileState, flushed, synced,
                 loglock, recording, recordtobuff, connected, newestsample,
                 buffer, buffch, nthreads, clock, lastDone, bufWin, lastop,
                 lateWrite, afterStop>>

\* The end of an iteration: back to line 392.
EndIteration ==
    /\ lpc' = "while"
    /\ lastDone' = data
    /\ data' = <<>> /\ t' = 0
    /\ recAtBegin' = "none"
    /\ UNCHANGED lerr

\* An exception leaves _sampleprocesser.
Raise(exception) ==
    /\ lpc' = "dead"
    /\ lerr' = exception
    /\ data' = <<>> /\ t' = 0
    /\ recAtBegin' = "none"
    /\ UNCHANGED lastDone

\* Lines 412-414: the novelty test and the update of self._newestsample.
LoopNovel ==
    /\ lpc = "novel"
    /\ LET ne == NotEqual(data, newestsample) IN
       CASE ne = "ValueError" ->
              Raise("ValueError") /\ UNCHANGED newestsample
         [] ne = "True" ->
              /\ newestsample' = deepcopy(data)
              /\ lpc' = "rec"
              /\ UNCHANGED <<lerr, lastDone, data, t, recAtBegin>>
         [] ne = "False" ->
              EndIteration /\ UNCHANGED newestsample
    /\ UNCHANGED <<fpc, arg_devname, arg_n_channels, fret, ferr, fval, ft,
                 fmsg, channel, ncalls, devname, n_channels, starting_time,
                 calls, devConnected, logfile, fileState, flushed, synced,
                 loglock, recording, recordtobuff, connected, buffer,
                 buffch, nthreads, nfetch, clock, fetched, recWhole, bufWin,
                 bufFed, lastop, lateWrite, afterStop>>

\* Line 417: if self._recording
LoopRec ==
    /\ lpc = "rec"
    /\ lpc' = IF recording THEN "l_acquire" ELSE "buf"
    /\ UNCHANGED <<fpc, arg_devname, arg_n_channels, fret, ferr, fval, ft,
                 fmsg, channel, ncalls, devname, n_channels, starting_time,
                 calls, devConnected, logfile, fileState, flushed, synced,
                 loglock, recording, recordtobuff, connected, newestsample,
                 buffer, buffch, lerr, data, t, nthreads, nfetch, clock,
                 fetched, lastDone, recWhole, bufWin, bufFed, lastop,
                 lateWrite, recAtBegin, afterStop>>

\* Line 422: self._loglock.acquire(True)
\* An acquire that does not wait for the holder of the lock.
LoopAcquire_NoWait ==
    /\ lpc = "l_acquire"
    /\ loglock' = "loop"
    /\ lpc' = "l_write"
    /\ UNCHANGED <<fpc, arg_devname, arg_n_channels, fret, ferr, fval, ft,
                 fmsg, channel, ncalls, devname, n_channels, starting_time,
                 calls, devConnected, logfile, fileState, flushed, synced,
                 recording, recordtobuff, connected, newestsample, buffer,
                 buffch, lerr, data, t, nthreads, nfetch, clock, fetched,
                 lastDone, recWhole, bufWin, bufFed, lastop, lateWrite,
                 recAtBegin, afterStop>>

LoopAcquire ==
    /\ lpc = "l_acquire"
    /\ loglock = "free"
    /\ loglock' = "loop"
    /\ lpc' = "l_write"
    /\ UNCHANGED <<fpc, arg_devname, arg_n_channels, fret, ferr, fval, ft,
                 fmsg, channel, ncalls, devname, n_channels, starting_time,
                 calls, devConnected, logfile, fileState, flushed, synced,
                 recording, recordtobuff, connected, newestsample, buffer,
                 buffch, lerr, data, t, nthreads, nfetch, clock, fetched,
                 lastDone, recWhole, bufWin, bufFed, lastop, lateWrite,
                 recAtBegin, afterStop>>

\* Line 424: self._logfile.write(...), which raises ValueError on a closed
\* file; the lock is then still held.
LoopWrite ==
    /\ lpc = "l_write"
    /\ IF fileState = "open"
       THEN /\ logfile' = Append(logfile, DataRow(t, data))
            /\ lpc' = "l_release"
            /\ afterStop' = IF afterStop >= 0 THEN afterStop + 1 ELSE afterStop
            /\ UNCHANGED <<lerr, lateWrite, data, t, lastDone, recAtBegin>>
       ELSE /\ Raise("ValueError")
            /\ lateWrite' = TRUE
            /\ UNCHANGED <<logfile, afterStop>>
    /\ UNCHANGED <<fpc, arg_devname, arg_n_channels, fret, ferr, fval, ft,
                 fmsg, channel, ncalls, devname, n_channels, starting_time,
                 calls, devConnected, fileState, flushed, synced, loglock,
                 recording, recordtobuff, connected, newestsample, buffer,
                 buffch, nthreads, nfetch, clock, fetched, lastDone,
                 recWhole, bufWin, bufFed, lastop>>

\* Line 426: self._loglock.release()
LoopRelease ==
    /\ lpc = "l_release"
    /\ loglock' = "free"
    /\ lpc' = "buf"
    /\ UNCHANGED <<fpc, arg_devname, arg_n_channels, fret, ferr, fval, ft,
                 fmsg, channel, ncalls, devname, n_channels, starting_time,
                 calls, devConnected, logfile, fileState, flushed, synced,
                 recording, recordtobuff, connected, newestsample, buffer,
                 buffch, lerr, data, t, nthreads, nfetch, clock, fetched,
                 lastDone, recWhole, bufWin, bufFed, lastop, lateWrite,
                 recAtBegin, afterStop>>

\* Line 429: if self._recordtobuff
LoopBuf ==
    /\ lpc = "buf"
    /\ IF recordtobuff
       THEN lpc' = "append" /\ UNCHANGED <<lastDone, data, t, lerr, recAtBegin>>
       ELSE EndIteration
    /\ UNCHANGED <<fpc, arg_devname, arg_n_channels, fret, ferr, fval, ft,
                 fmsg, channel, ncalls, devname, n_channels, starting_time,
                 calls, devConnected, logfile, fileState, flushed, synced,
                 loglock, recording, recordtobuff, connected, newestsample,
                 buffer, buffch, lerr, nthreads, nfetch, clock, fetched,
                 recWhole, bufWin, bufFed, lastop, lateWrite, afterStop>>

\* Line 430: self._buffer.append(self._newestsample[self._buffch]), which
\* raises IndexError when the tuple has no such element.
LoopAppend ==
    /\ lpc = "append"
    /\ IF buffch < Len(newestsample.val)
       THEN /\ buffer' = Append(buffer, newestsample.val[buffch + 1])
            /\ EndIteration
       ELSE /\ Raise("IndexError")
            /\ UNCHANGED buffer
    /\ UNCHANGED <<fpc, arg_devname, arg_n_channels, fret, ferr, fval, ft,
                 fmsg, channel, ncalls, devname, n_channels, starting_time,
                 calls, devConnected, logfile, fileState, flushed, synced,
                 loglock, recording, recordtobuff, connected, newestsample,
                 buffch, nthreads, nfetch, clock, fetched, recWhole, bufWin,
                 bufFed, lastop, lateWrite, afterStop>>

\* time.time() advances.
Tick ==
    /\ clock < MaxTime
    /\ clock' = clock + 1
    /\ UNCHANGED <<fpc, arg_devname, arg_n_channels, fret, ferr, fval, ft,
                 fmsg, channel, ncalls, devname, n_channels, starting_time,
                 calls, devConnected, logfile, fileState, flushed, synced,
                 loglock, recording, recordtobuff, connected, newestsample,
                 buffer, buffch, lpc, lerr, data, t, nthreads, nfetch,
                 fetched, lastDone, recWhole, bufWin, bufFed, lastop,
                 lateWrite, recAtBegin, afterStop>>

Open ==
    \/ \E dev \in DevNames, n \in ChannelCounts : Validate(dev, n)
    \/ \E result \in RetCodes : Connect(result)
    \/ \E result \in RetCodes : SetSampleRate(result)
    \/ \E result \in RetCodes : SetAcqChannels(result)
    \/ \E result \in RetCodes : StartAcquisition(result)
    \/ OpenLogAndStartThread

Foreground ==
    \/ start_recording
    \/ stop_recording \/ sr_acquire \/ sr_flush \/ sr_fsync \/ sr_release
    \/ \E ch \in Channels : start_recording_to_buffer(ch)
    \/ sb_buffch \/ sb_flag
    \/ stop_recording_to_buffer
    \/ sample
    \/ get_buffer
    \/ \E m \in Messages : log(m)
    \/ log_acquire \/ log_write \/ log_release
    \/ close \/ close_file \/ close_flag
    \/ \E result \in RetCodes : Disconnect(result)

Loop ==
    \/ LoopWhile
    \/ \E result \in RetCodes, s \in Samples(n_channels) : LoopFetch(result, s)
    \/ LoopNovel \/ LoopRec \/ LoopAcquire \/ LoopWrite \/ LoopRelease
    \/ LoopBuf \/ LoopAppend

Next == Open \/ Foreground \/ Loop \/ Tick

Spec == Init /\ [][Next]_vars

(***************************************************************************)
(* Operators the properties use.                                           *)
(***************************************************************************)
Range(f) == {f[i] : i \in DOMAIN f}

\* The sample vectors of the data rows of the log, in the order of the rows.
RECURSIVE DataVals(_)
DataVals(rows) ==
    IF rows = <<>> THEN <<>>
    ELSE IF Head(rows).kind = "DATA"
         THEN <<Head(rows).vals>> \o DataVals(Tail(rows))
         ELSE DataVals(Tail(rows))

\* One element per maximal run of consecutive equal elements of seq.
RECURSIVE Runs(_)
Runs(seq) ==
    IF Len(seq) <= 1 THEN seq
    ELSE IF seq[1] = seq[2] THEN Runs(Tail(seq))
         ELSE <<seq[1]>> \o Runs(Tail(seq))

PairwiseDistinct(seq) ==
    \A i, j \in DOMAIN seq : i # j => seq[i] # seq[j]

\* The sample processing thread is between two iterations, blocked in the
\* driver, or ended: every sample it fetched has been dealt with.
LoopQuiet == lpc \in {"while", "fetch", "done", "dead"}

\* The positions of __init__.
InInit == fpc \in {"new", "connectMPDev", "setSampleRate", "setAcqChannels",
                   "startAcquisition", "openlog"}

\* The order in which __init__ calls the driver.
OpenOrder == <<"connectMPDev", "setSampleRate", "setAcqChannels",
               "startAcquisition">>

\* The shared sample, and the value sample() returned, is the vector
\* __init__ stored or a vector one fetch returned.
SampleIsWhole ==
    /\ newestsample.val \in {Zeros(n_channels)} \cup Range(fetched)
    /\ (fpc = "idle" /\ lastop = "sample")
           => fval \in {Zeros(n_channels)} \cup Range(fetched)

\* The running iteration, or the one an exception ended, has executed line 414.
LaterStored ==
    \/ lpc \in {"rec", "l_acquire", "l_write", "l_release", "buf", "append"}
    \/ lpc = "dead" /\ lerr \in {"ValueError", "IndexError"}

\* The foreground is inside log().
InLog == fpc \in {"log_acquire", "log_write", "log_release"}

\* The number of MSG rows of the log.
CountMsg(rows) == Cardinality({i \in DOMAIN rows : rows[i].kind = "MSG"})

(***************************************************************************)
(* C1.  While recording to the log is on from before the first fetch, the  *)
(* log holds exactly one data row per maximal run of consecutive equal     *)
(* samples the driver returned, in arrival order, the first sample of the  *)
(* session included.  Stated for the moments at which the thread has dealt *)
(* with every sample it fetched.                                           *)
(***************************************************************************)
C1_OneRowPerRun ==
    (recWhole = "on" /\ lpc \in {"while", "fetch"})
        => DataVals(logfile) = Runs(fetched)

(***************************************************************************)
(* C2.  For a channel c < n_channels and pairwise distinct samples s1..sk  *)
(* returned between the return of start_recording_to_buffer(c) and the     *)
(* call of stop_recording_to_buffer(), the buffer get_buffer() returns     *)
(* after the stop is exactly [s1[c], ..., sk[c]].  Stated for the moments  *)
(* at which the thread has dealt with every sample it fetched.             *)
(***************************************************************************)
C2_BufferExact ==
    (/\ fpc = "idle" /\ bufWin = "closed" /\ LoopQuiet
     /\ buffch < n_channels
     /\ PairwiseDistinct(bufFed))
        => buffer = [i \in 1..Len(bufFed) |-> bufFed[i][buffch + 1]]

(***************************************************************************)
(* C3 as claimed.  sample() returns a whole vector, the initial one or one *)
(* a single fetch returned, and once an iteration with a successful fetch  *)
(* has completed, sample() equals the sample fetched by the most recently  *)
(* completed iteration.                                                    *)
(***************************************************************************)
C3_SampleOfLastCompleted ==
    (~InInit /\ fpc # "failed")
        => /\ SampleIsWhole
           /\ lastDone # <<>> => newestsample.val = lastDone

(***************************************************************************)
(* C3 as amended.  sample() returns a whole vector, the initial one or one *)
(* a single fetch returned, and once an iteration with a successful fetch  *)
(* has completed, sample() equals the sample fetched by the most recently  *)
(* completed iteration until a later iteration stores its sample at line   *)
(* 414; from then on it equals the sample that later iteration fetched.    *)
(***************************************************************************)
C3_SampleWholeAndLatest ==
    (~InInit /\ fpc # "failed")
        => /\ SampleIsWhole
           /\ lastDone # <<>> =>
                newestsample.val = IF LaterStored THEN fetched[Len(fetched)]
                                                  ELSE lastDone

\* sample() has returned the sample, other than the initial value, that the
\* last completed iteration fetched.
C3_Witness ==
    /\ fpc = "idle" /\ lastop = "sample"
    /\ lastDone # <<>> /\ lastDone # Zeros(n_channels)
    /\ lpc \in {"while", "fetch"}
    /\ fval = lastDone

(***************************************************************************)
(* C4.  In an open session every call of log(message) appends exactly one  *)
(* MSG row with the timestamp taken at the call and the message, whether   *)
(* self._recording is set or not, and changes neither recording flag.      *)
(***************************************************************************)
C4_LogAppendsOneRow ==
    [][/\ (fpc = "idle" /\ fpc' = "log_acquire")
            => (ft' = clock - starting_time /\ fmsg' \in Messages)
       /\ (fpc = "log_acquire" /\ fpc' = "log_write")
            => (ft' = ft /\ fmsg' = fmsg /\ logfile' = logfile)
       /\ (fpc = "log_write" /\ fpc' # "log_write" /\ fileState = "open")
            => /\ fpc' = "log_release"
               /\ logfile' = Append(logfile, [kind |-> "MSG", t |-> ft,
                                              vals |-> <<>>, msg |-> fmsg])
       /\ (fpc = "log_release" /\ fpc' # "log_release")
            => (fpc' = "idle" /\ ferr' = "none" /\ logfile' = logfile)
       /\ (InLog \/ InLog')
            => (recording' = recording /\ recordtobuff' = recordtobuff)
       /\ CountMsg(logfile') # CountMsg(logfile)
            => (fpc = "log_write" /\ CountMsg(logfile') = CountMsg(logfile) + 1)
      ]_vars

\* log() has returned with self._recording unset, and its row is in the log.
C4_Witness ==
    /\ fpc = "idle" /\ lastop = "log" /\ ferr = "none"
    /\ ~recording
    /\ fileState = "open"
    /\ logfile[Len(logfile)].kind = "MSG"

(***************************************************************************)
(* C5.  __init__ with a device name that is not supported, or a channel    *)
(* count outside 1..16, raises before any driver call, creates no log file *)
(* and starts no thread.                                                   *)
(***************************************************************************)
C5_InvalidArgumentsFailEarly ==
    (/\ fpc # "new" /\ (InInit \/ fpc = "failed")
     /\ \/ Upper(arg_devname) \notin {"MP150", "MP160", "MP36R"}
        \/ arg_n_channels \notin 1..16)
        => /\ fpc = "failed"
           /\ ferr \in {"UnknownDevice", "BadChannelCount"}
           /\ calls = <<>> /\ ~devConnected
           /\ fileState = "none" /\ logfile = <<>>
           /\ nthreads = 0 /\ lpc = "none"

\* __init__ has raised for a channel count of 17.
C5_Witness ==
    /\ fpc = "failed" /\ ferr = "BadChannelCount"
    /\ arg_n_channels = 17
    /\ calls = <<>>

(***************************************************************************)
(* C6.  When stop_recording releases the lock and returns, every row in    *)
(* the log file (all were appended before its flush, as it holds the lock  *)
(* since) has been flushed and synced to the disk, and self._recording is  *)
(* unset.                                                                  *)
(***************************************************************************)
C6_StopRecordingIsDurable ==
    fpc = "sr_release"
        => /\ flushed = Len(logfile)
           /\ synced = Len(logfile)
           /\ ~recording

\* stop_recording is about to return, and the log holds a data row.
C6_Witness ==
    /\ fpc = "sr_release"
    /\ \E i \in DOMAIN logfile : logfile[i].kind = "DATA"
    /\ synced = Len(logfile)

(***************************************************************************)
(* C7.  In every interleaving of close() with the sample processing thread *)
(* no write to the log file is attempted after the file has been closed.   *)
(* Stated for the sessions in which close() is the last method called.     *)
(***************************************************************************)
C7_NoWriteAfterClose == lastop = "close" => ~lateWrite

(***************************************************************************)
(* C8.  __init__ calls the driver in the order connectMPDev, setSampleRate,*)
(* setAcqChannels, startAcquisition; the first call that does not return   *)
(* MPSUCCESS is the last one, and then no header is written and no thread  *)
(* is started; exactly one thread is started iff all four succeed.         *)
(***************************************************************************)
C8_OpenSequence ==
    LET k     == IF Len(calls) < 4 THEN Len(calls) ELSE 4
        AllOK == Len(calls) >= 4 /\ \A i \in 1..4 : calls[i].rc = MPSUCCESS
    IN  /\ \A i \in 1..k : calls[i].fn = OpenOrder[i]
        /\ \A i \in 1..k : calls[i].rc # MPSUCCESS
              => /\ i = Len(calls)
                 /\ fpc = "failed"
                 /\ fileState = "none" /\ logfile = <<>>
                 /\ nthreads = 0 /\ lpc = "none"
        /\ nthreads <= 1
        /\ ~InInit => (nthreads = 1 <=> AllOK)

\* __init__ has raised at setAcqChannels, the third driver call.
C8_Witness ==
    /\ fpc = "failed" /\ ferr = "setAcqChannels"
    /\ Len(calls) = 3 /\ calls[3].rc # MPSUCCESS
    /\ nthreads = 0

(***************************************************************************)
(* C9.  When __init__ fails after connectMPDev succeeded, the connection   *)
(* is released (disconnectMPDev is called) before the exception leaves     *)
(* __init__: after a failed __init__ the device is not connected.          *)
(***************************************************************************)
C9_FailedOpenDisconnects == fpc = "failed" => ~devConnected

(***************************************************************************)
(* C10.  start_recording_to_buffer(channel) with channel >= n_channels     *)
(* raises in the caller, leaves self._recordtobuff unset and does not end  *)
(* the sample processing thread.                                           *)
(***************************************************************************)
C10_BadChannelFailsFast ==
    /\ recordtobuff => buffch < n_channels
    /\ lerr # "IndexError"


\* The data rows of the log.
DataRows(rows) == {i \in DOMAIN rows : rows[i].kind = "DATA"}

\* Sequence a is an initial part of sequence b.
IsPrefix(a, b) == Len(a) <= Len(b) /\ SubSeq(b, 1, Len(a)) = a

(***************************************************************************)
(* C11.  Once a fetch of the sample processing thread has failed, the next *)
(* sample() raises, unless self._connected has been cleared: the caller    *)
(* does not go on receiving the last sample with no sign of the failure.   *)
(***************************************************************************)
C11_FetchFailureSurfaced ==
    [][(lerr = "fetch" /\ connected /\ lastop' = "sample"
            /\ ncalls' = ncalls + 1)
          => ferr' # "none"]_vars

(***************************************************************************)
(* C12.  After a failed fetch the thread is ended: no step fetches again,  *)
(* changes self._newestsample, adds a data row or appends to the buffer,   *)
(* and the rows the log holds stay where they are.                         *)
(***************************************************************************)
C12_FailedFetchEndsLoop ==
    [][lerr = "fetch"
          => /\ lpc' = "dead" /\ lerr' = "fetch"
             /\ nfetch' = nfetch
             /\ fetched' = fetched
             /\ newestsample' = newestsample
             /\ IsPrefix(logfile, logfile')
             /\ DataRows(logfile') = DataRows(logfile)
             /\ buffer' # buffer => buffer' = <<>>]_vars

\* A fetch has failed after a sample was stored and written to the log, and
\* the foreground has made a call since the failure.
C12_Witness ==
    /\ lerr = "fetch" /\ lpc = "dead"
    /\ newestsample.kind = "tuple"
    /\ DataRows(logfile) # {}
    /\ logfile[Len(logfile)].kind = "MSG"

\* The foreground is inside the locked part of stop_recording() or log().
FgInSink == fpc \in {"sr_flush", "sr_fsync", "sr_release",
                     "log_write", "log_release"}

\* The thread is inside the locked part of its iteration.
LoopInSink == lpc \in {"l_write", "l_release"}

(***************************************************************************)
(* C13.  The data-row append of the thread, the MSG-row append of log()    *)
(* and the flush of stop_recording() never overlap: whoever is inside one  *)
(* of them holds self._loglock, and every row of the log is one whole row  *)
(* of the header, of the thread or of log().                               *)
(***************************************************************************)
C13_OneWriterAtATime ==
    /\ ~(FgInSink /\ LoopInSink)
    /\ FgInSink => loglock = "fg"
    /\ LoopInSink => loglock = "loop"
    /\ \A i \in DOMAIN logfile :
          \/ i = 1 /\ logfile[i] = Header(n_channels)
          \/ \E ts \in 0..MaxTime, d \in Samples(n_channels) :
                logfile[i] = DataRow(ts, d)
          \/ \E ts \in 0..MaxTime, m \in Messages :
                logfile[i] = MsgRow(ts, m)

\* The thread waits for the lock while log() is about to write its row.
C13_Witness ==
    /\ lpc = "l_acquire" /\ fpc = "log_write" /\ loglock = "fg"


\* Sequence a is sequence b with some of its elements left out.
RECURSIVE IsSubSeq(_, _)
IsSubSeq(a, b) ==
    IF a = <<>> THEN TRUE
    ELSE IF b = <<>> THEN FALSE
    ELSE IF Head(a) = Head(b) THEN IsSubSeq(Tail(a), Tail(b))
         ELSE IsSubSeq(a, Tail(b))

(***************************************************************************)
(* C14.  From the moment start_recording_to_buffer(c) has set the flag,    *)
(* the elements of the buffer are, in order, values at channel c of        *)
(* samples fetched after that moment and before the flag was cleared:      *)
(* none comes from a sample fetched before the start.                      *)
(***************************************************************************)
C14_BufferOnlyFromWindow ==
    (bufWin \in {"open", "closed"} /\ buffch < n_channels)
        => IsSubSeq(buffer, [i \in 1..Len(bufFed) |-> bufFed[i][buffch + 1]])


\* The thread takes a step out of position p.
LoopLeaves(p) == lpc = p /\ lpc' # p

(***************************************************************************)
(* C15.  An iteration that begins with self._recording set, the flag not   *)
(* being cleared while it runs, appends the row of the sample it fetched   *)
(* when that sample differs from the stored one; an iteration that begins  *)
(* with the flag clear, the flag not being set while it runs, appends      *)
(* none; and after stop_recording() has returned at most one more data row *)
(* is appended until the next start_recording().                           *)
(***************************************************************************)
C15_FlagWithinOneIteration ==
    [][/\ (LoopLeaves("novel") /\ recAtBegin = "on"
              /\ data # newestsample.val) => lpc' = "rec"
       /\ (LoopLeaves("rec") /\ recAtBegin = "on") => lpc' = "l_acquire"
       /\ (LoopLeaves("l_write") /\ recAtBegin = "on")
             => logfile' = Append(logfile, DataRow(t, data))
       /\ (LoopLeaves("rec") /\ recAtBegin = "off") => lpc' = "buf"
       /\ DataRows(logfile') # DataRows(logfile)
             => recAtBegin \in {"on", "mixed"}
       /\ afterStop' <= 1]_vars


(***************************************************************************)
(* C16.  While no fetch fails, the sample processing thread does not end   *)
(* before close() has cleared self._connected.                             *)
(***************************************************************************)
C16_LoopRunsUntilClosed ==
    (lpc \in {"dead", "done"} /\ lerr # "fetch") => ~connected


\* The timestamps of the rows of one kind are non-negative and, read in the
\* order of the rows, non-decreasing.
SortedRows(rows, kind) ==
    \A i, j \in DOMAIN rows :
        (i <= j /\ rows[i].kind = kind /\ rows[j].kind = kind)
            => (0 <= rows[i].t /\ rows[i].t <= rows[j].t)

(***************************************************************************)
(* C17.  self._starting_time is assigned once, by the step that gets the   *)
(* success of connectMPDev and before any other driver call, and never     *)
(* again; the timestamps of the data rows of the log are non-negative and  *)
(* non-decreasing in the order of the rows.                                *)
(***************************************************************************)
C17_ClockOriginFixed ==
    [][/\ starting_time' # starting_time
             => /\ fpc = "connectMPDev" /\ fpc' = "setSampleRate"
                /\ calls = <<>>
                /\ calls' = <<[fn |-> "connectMPDev", rc |-> MPSUCCESS]>>
                /\ starting_time' = clock
       /\ fpc' \notin {"new", "connectMPDev", "failed"} => starting_time' >= 0
       /\ SortedRows(logfile', "DATA")]_vars

\* Two data rows with different timestamps, the flag having been cleared
\* after the first one was written.
C17_Witness ==
    /\ \E i, j \in DataRows(logfile) : logfile[i].t < logfile[j].t
    /\ lastop = "stop_recording"


\* A step of the sample processing thread; a step of one of the calls the
\* foreground makes once __init__ has returned.
LoopStep == lpc # "none" /\ lpc' # lpc
CallStep == ~InInit /\ (fpc' # fpc \/ ncalls' # ncalls)

(***************************************************************************)
(* C18.  The thread only reads self._recording, self._recordtobuff,        *)
(* self._buffch and self._connected: none of its steps changes one of      *)
(* them.  No step of start_recording, stop_recording,                      *)
(* start_recording_to_buffer, stop_recording_to_buffer, sample,            *)
(* get_buffer, log or close changes self._newestsample.                    *)
(***************************************************************************)
C18_SingleWriter ==
    [][/\ LoopStep => /\ recording' = recording
                      /\ recordtobuff' = recordtobuff
                      /\ buffch' = buffch
                      /\ connected' = connected
       /\ CallStep => newestsample' = newestsample
       /\ ~(LoopStep /\ CallStep)]_vars

\* The thread has stored a sample and ended after close(), recording to
\* the log having been switched on by start_recording().
C18_Witness ==
    /\ newestsample.kind = "tuple"
    /\ lpc = "done" /\ ~connected
    /\ recWhole = "off" /\ DataRows(logfile) # {}


(***************************************************************************)
(* C19, as stated.  The timestamps of all rows of the log, MSG rows and    *)
(* data rows together, are non-decreasing in the order of the rows.        *)
(***************************************************************************)
C19_AllRowsSorted ==
    \A i, j \in DOMAIN logfile : i <= j => logfile[i].t <= logfile[j].t

(***************************************************************************)
(* C19, amended.  The timestamps of the data rows are non-decreasing in    *)
(* the order of the rows, and so are those of the MSG rows; a row of one   *)
(* kind can follow a row of the other kind that carries a larger           *)
(* timestamp.                                                              *)
(***************************************************************************)
C19_RowsSortedPerWriter ==
    /\ SortedRows(logfile, "DATA")
    /\ SortedRows(logfile, "MSG")
    /\ \A i \in DOMAIN logfile : logfile[i].t \in 0..MaxTime

\* While recording, a MSG row follows a data row with a larger timestamp:
\* log() took its timestamp, then waited for the lock.
C19_Witness ==
    \E i, j \in DOMAIN logfile :
        /\ i < j /\ logfile[i].kind = "DATA" /\ logfile[j].kind = "MSG"
        /\ logfile[i].t > logfile[j].t
        /\ recording


(***************************************************************************)
(* C20.  self._loglock is released on every path that acquires it.  Stated *)
(* for the sample processing thread of a session whose last call is        *)
(* close(): the thread holds the lock only between its acquire and its     *)
(* release, and does not end with the lock held.                           *)
(***************************************************************************)
C20_LockReleasedOnEveryPath ==
    (lastop = "close" /\ loglock = "loop") => LoopInSink

=============================================================================
